---- MODULE Spec2Model ----
(***************************************************************************)
(* A model of diy-lisp: the Environment/Closure types (diylisp/types.py),  *)
(* the evaluator (diylisp/evaluator.py) and the reader (diylisp/parser.py).*)
(*                                                                         *)
(* Values and AST nodes are tagged records.  Environments are objects with *)
(* identity: `heap` maps an environment id to its `variables` dict, so     *)
(* that in-place mutation (Environment.set) and copying                    *)
(* (Environment.extend) are distinguishable.  An evaluation returns an     *)
(* outcome record [k, v, h]: k is "ok" or the name of the Python exception *)
(* raised, v the value returned, h the heap after the call's side effects. *)
(* Source text is a sequence of one-character strings.                     *)
(***************************************************************************)
EXTENDS Integers, Sequences, FiniteSets, TLC

VARIABLES heap, exts, last, built, source, orig, result

vars == <<heap, exts, last, built, source, orig, result>>

(***************************************************************************)
(* Bounds of the model.                                                    *)
(***************************************************************************)
MaxEnvs == 2
MaxLen == 4

(***************************************************************************)
(* Values.                                                                 *)
(***************************************************************************)
Integer(n) == [t |-> "int", i |-> n]
Boolean(x) == [t |-> "bool", b |-> x]
Symbol(name) == [t |-> "sym", s |-> name]
List(items) == [t |-> "list", l |-> items]
ClosureVal(env, params, body) ==
    [t |-> "closure", env |-> env, params |-> params, body |-> body]
None == [t |-> "none"]

Ok(v, h) == [k |-> "ok", v |-> v, h |-> h]
Raise(kind, h) == [k |-> kind, v |-> None, h |-> h]

(***************************************************************************)
(* The predicate and assertion collaborators (diylisp/ast.py and           *)
(* diylisp/asserts.py are not among the source files).                     *)
(***************************************************************************)
is_boolean(x) == x.t = "bool"
is_integer(x) == x.t = "int"
is_symbol(x) == x.t = "sym"
is_list(x) == x.t = "list"
is_closure(x) == x.t = "closure"
is_atom(x) == is_symbol(x) \/ is_integer(x) \/ is_boolean(x) \/ is_closure(x)

assert_exp_length(ast, n) == Len(ast.l) = n

(***************************************************************************)
(* Python semantics the evaluator relies on.                               *)
(***************************************************************************)
\* bool(v): the truth value Python's `if` gives a value.
PyTruthy(v) ==
    CASE v.t = "bool" -> v.b
      [] v.t = "int" -> v.i # 0
      [] v.t = "sym" -> v.s # ""
      [] v.t = "list" -> Len(v.l) > 0
      [] OTHER -> TRUE

\* a == b on values; bool is a subclass of int, so True == 1 and False == 0.
PyNum(v) == IF v.t = "bool" THEN (IF v.b THEN 1 ELSE 0) ELSE v.i
PyEq(a, b) ==
    IF a.t \in {"int", "bool"} /\ b.t \in {"int", "bool"}
    THEN PyNum(a) = PyNum(b)
    ELSE a = b

\* first == 'name' for a string literal of the source.
IsName(x, name) == is_symbol(x) /\ x.s = name

\* Floor division and modulo of Python 2 ints (operator.div, operator.mod).
PyDiv(a, b) == IF b > 0 THEN a \div b ELSE (0 - a) \div (0 - b)
PyMod(a, b) == a - b * PyDiv(a, b)

(***************************************************************************)
(* types.py                                                                *)
(***************************************************************************)
\* Closure.__init__ raises NotImplementedError("DIY"): no closure is built.
Closure(env, params, body, h) == Raise("NotImplementedError", h)

lookup(h, e, symbol) ==
    IF symbol \notin DOMAIN h[e]
    THEN Raise("LispError", h)
    ELSE Ok(h[e][symbol], h)

\* extend with the copy left out: var = self.variables.
extend_alias(h, e, variables) ==
    [h |-> [h EXCEPT ![e] =
                [s \in (DOMAIN h[e]) \cup (DOMAIN variables) |->
                    IF s \in DOMAIN variables THEN variables[s] ELSE h[e][s]]],
     env |-> e]

\* A fresh dict: the parent's variables, then `variables` over them; a new
\* Environment object holds it.
extend(h, e, variables) ==
    [h |-> Append(h,
                [s \in (DOMAIN h[e]) \cup (DOMAIN variables) |->
                    IF s \in DOMAIN variables THEN variables[s] ELSE h[e][s]]),
     env |-> Len(h) + 1]

\* set with the check left out.
set_overwrite(h, e, symbol, value) ==
    Ok(None, [h EXCEPT ![e] =
                [s \in (DOMAIN h[e]) \cup {symbol} |->
                    IF s = symbol THEN value ELSE h[e][s]]])

set(h, e, symbol, value) ==
    IF symbol \in DOMAIN h[e]
    THEN Raise("LispError", h)
    ELSE Ok(None, [h EXCEPT ![e] =
                [s \in (DOMAIN h[e]) \cup {symbol} |->
                    IF s = symbol THEN value ELSE h[e][s]]])

(***************************************************************************)
(* evaluator.py                                                            *)
(***************************************************************************)
BUILTINS == {"+", "-", "*", "/", "mod", ">", "<"}

apply_builtin(name, a, b, h) ==
    CASE name = "+" -> Ok(Integer(a + b), h)
      [] name = "-" -> Ok(Integer(a - b), h)
      [] name = "*" -> Ok(Integer(a * b), h)
      [] name = "/" -> IF b = 0 THEN Raise("ZeroDivisionError", h)
                       ELSE Ok(Integer(PyDiv(a, b)), h)
      [] name = "mod" -> IF b = 0 THEN Raise("ZeroDivisionError", h)
                         ELSE Ok(Integer(PyMod(a, b)), h)
      [] name = ">" -> Ok(Boolean(a > b), h)
      [] name = "<" -> Ok(Boolean(a < b), h)

head(l) == l[1]
tail(l) == IF Len(l) > 0 THEN SubSeq(l, 2, Len(l)) ELSE <<>>

\* dict(zip(params, values)): later pairs win; a list is not hashable.
zip_bindings(params, values) ==
    LET n == IF Len(params) < Len(values) THEN Len(params) ELSE Len(values)
        last_of(p) == CHOOSE i \in 1..n :
                          /\ params[i] = p
                          /\ \A j \in 1..n : params[j] = p => j <= i
    IN [p \in {params[i] : i \in 1..n} |-> values[last_of(p)]]

RECURSIVE evaluate(_, _, _)
RECURSIVE eval_list(_, _, _)
RECURSIVE eval_eq(_, _, _)
RECURSIVE eval_if(_, _, _)
RECURSIVE eval_define(_, _, _)
RECURSIVE eval_builtin(_, _, _)
RECURSIVE eval_lambda(_, _, _)
RECURSIVE eval_closure(_, _, _)
RECURSIVE eval_args(_, _, _)
RECURSIVE eval_atom(_, _, _)

\* An undefined symbol, or an atom that is neither boolean, symbol nor
\* integer (a closure), is a LispError.
eval_atom(atom, e, h) ==
    IF is_boolean(atom) THEN Ok(atom, h)
    ELSE IF is_symbol(atom) THEN lookup(h, e, atom)
    ELSE IF is_integer(atom) THEN Ok(atom, h)
    ELSE Raise("LispError", h)

\* map(lambda e: evaluate(e, env), rest): left to right, the first failure
\* propagates.  Returns [k, v, h] with v the sequence of values.
eval_args(rest, e, h) ==
    IF Len(rest) = 0 THEN [k |-> "ok", v |-> <<>>, h |-> h]
    ELSE LET r == evaluate(rest[1], e, h) IN
         IF r.k # "ok" THEN r
         ELSE LET rs == eval_args(tail(rest), e, r.h) IN
              IF rs.k # "ok" THEN rs
              ELSE [k |-> "ok", v |-> <<r.v>> \o rs.v, h |-> rs.h]

eval_closure(ast, e, h) ==
    LET closure == head(ast.l)
        rest == tail(ast.l)
    IN IF Len(rest) # Len(closure.params) THEN Raise("LispError", h)
       ELSE LET rv == eval_args(rest, e, h) IN
            IF rv.k # "ok" THEN rv
            ELSE IF \E i \in 1..Len(closure.params) : is_list(closure.params[i])
                 THEN Raise("TypeError", rv.h)
            ELSE LET bindings == zip_bindings(closure.params, rv.v)
                     x == extend(rv.h, closure.env, bindings)
                 IN evaluate(closure.body, x.env, x.h)

eval_lambda(ast, e, h) ==
    IF Len(ast.l) # 3 THEN Raise("LispError", h)
    ELSE LET params == ast.l[2]
             body == ast.l[3]
         IN IF ~is_list(params) THEN Raise("LispError", h)
            ELSE Closure(e, params.l, body, h)

eval_builtin(ast, e, h) ==
    IF ~assert_exp_length(ast, 3) THEN Raise("LispError", h)
    ELSE LET name == ast.l[1].s
             ra == evaluate(ast.l[2], e, h)
         IN IF ra.k # "ok" THEN ra
            ELSE LET rb == evaluate(ast.l[3], e, ra.h) IN
                 IF rb.k # "ok" THEN rb
                 ELSE IF ~is_integer(ra.v) THEN Raise("LispError", rb.h)
                 ELSE IF ~is_integer(rb.v) THEN Raise("LispError", rb.h)
                 ELSE apply_builtin(name, ra.v.i, rb.v.i, rb.h)

eval_define(ast, e, h) ==
    IF Len(ast.l) # 3 THEN Raise("LispError", h)
    ELSE LET symbol == ast.l[2] IN
         IF ~is_symbol(symbol) THEN Raise("LispError", h)
         ELSE LET r == evaluate(ast.l[3], e, h) IN
              IF r.k # "ok" THEN r
              ELSE LET w == set(r.h, e, symbol, r.v) IN
                   IF w.k # "ok" THEN w ELSE Ok(r.v, w.h)

eval_if(ast, e, h) ==
    IF ~assert_exp_length(ast, 4) THEN Raise("LispError", h)
    ELSE LET predicate == ast.l[2]
             consequence == ast.l[3]
             alternative == ast.l[4]
             p == evaluate(predicate, e, h)
         IN IF p.k # "ok" THEN p
            ELSE IF PyTruthy(p.v) THEN evaluate(consequence, e, p.h)
            ELSE evaluate(alternative, e, p.h)

eval_eq(ast, e, h) ==
    IF ~assert_exp_length(ast, 3) THEN Raise("LispError", h)
    ELSE LET a == evaluate(ast.l[2], e, h) IN
         IF a.k # "ok" THEN a
         ELSE LET b == evaluate(ast.l[3], e, a.h) IN
              IF b.k # "ok" THEN b
              ELSE IF ~is_atom(a.v) THEN Ok(Boolean(FALSE), b.h)
              ELSE IF ~is_atom(b.v) THEN Ok(Boolean(FALSE), b.h)
              ELSE Ok(Boolean(PyEq(a.v, b.v)), b.h)

eval_list(ast, e, h) ==
    IF Len(ast.l) = 0 THEN Ok(List(<<>>), h)
    ELSE LET first == head(ast.l)
             rest == tail(ast.l)
         IN
         IF IsName(first, "quote") THEN
             IF assert_exp_length(ast, 2) THEN Ok(ast.l[2], h)
             ELSE Raise("LispError", h)
         ELSE IF IsName(first, "if") THEN eval_if(ast, e, h)
         ELSE IF IsName(first, "atom") THEN
             IF ~assert_exp_length(ast, 2) THEN Raise("LispError", h)
             ELSE LET r == evaluate(ast.l[2], e, h) IN
                  IF r.k # "ok" THEN r ELSE Ok(Boolean(is_atom(r.v)), r.h)
         ELSE IF IsName(first, "eq") THEN eval_eq(ast, e, h)
         ELSE IF IsName(first, "define") THEN eval_define(ast, e, h)
         ELSE IF IsName(first, "lambda") THEN eval_lambda(ast, e, h)
         ELSE IF is_closure(first) THEN eval_closure(ast, e, h)
         ELSE IF is_list(first) THEN
             LET c == evaluate(first, e, h) IN
             IF c.k # "ok" THEN c
             ELSE IF ~is_closure(c.v) THEN Raise("LispError", c.h)
             ELSE eval_closure(List(<<c.v>> \o rest), e, c.h)
         ELSE IF is_symbol(first) /\ first.s \in BUILTINS THEN
             eval_builtin(ast, e, h)
         ELSE IF is_symbol(first) THEN
             LET value == lookup(h, e, first) IN
             IF value.k # "ok" THEN value
             ELSE IF is_closure(value.v)
                  THEN eval_closure(List(<<value.v>> \o rest), e, h)
                  ELSE Raise("LispError", h)
         ELSE Raise("LispError", h)

evaluate(ast, e, h) ==
    IF is_atom(ast) THEN eval_atom(ast, e, h)
    ELSE IF is_list(ast) THEN eval_list(ast, e, h)
    ELSE Ok(None, h)

(***************************************************************************)
(* parser.py.  Positions are the source's 0-based indices: At(s, pos) is   *)
(* s[pos] and Slice(s, a, b) is s[a:b].  A parse returns [k, expr, pend].  *)
(***************************************************************************)
WHITESPACE == {" ", "\t", "\n", "\r"}
TOK_PAR_OPEN == "("
TOK_PAR_CLOSE == ")"
TOK_QUOTE == "'"

At(s, pos) == s[pos + 1]
Slice(s, a, b) == SubSeq(s, a + 1, b)

POk(expr, pend) == [k |-> "ok", expr |-> expr, pend |-> pend]
PRaise(kind) == [k |-> kind, expr |-> None, pend |-> 0]

\* The Python string a sequence of characters stands for.
RECURSIVE Str(_)
Str(cs) == IF Len(cs) = 0 THEN "" ELSE cs[1] \o Str(Tail(cs))

\* int(tok), base 10: an optional sign, then one or more digits.
Digits == {"0", "1", "2", "3", "4", "5", "6", "7", "8", "9"}
DigitVal(c) ==
    CASE c = "0" -> 0 [] c = "1" -> 1 [] c = "2" -> 2 [] c = "3" -> 3
      [] c = "4" -> 4 [] c = "5" -> 5 [] c = "6" -> 6 [] c = "7" -> 7
      [] c = "8" -> 8 [] c = "9" -> 9
Unsigned(tok) == IF Len(tok) > 0 /\ tok[1] \in {"+", "-"} THEN Tail(tok) ELSE tok
IsIntTok(tok) ==
    /\ Len(Unsigned(tok)) > 0
    /\ \A i \in 1..Len(Unsigned(tok)) : Unsigned(tok)[i] \in Digits
RECURSIVE DigitsVal(_)
DigitsVal(ds) ==
    IF Len(ds) = 0 THEN 0
    ELSE 10 * DigitsVal(SubSeq(ds, 1, Len(ds) - 1)) + DigitVal(ds[Len(ds)])
IntVal(tok) ==
    IF tok[1] = "-" THEN 0 - DigitsVal(Unsigned(tok)) ELSE DigitsVal(Unsigned(tok))

\* source.strip()
RECURSIVE strip(_)
strip(s) ==
    IF Len(s) = 0 THEN s
    ELSE IF s[1] \in WHITESPACE THEN strip(Tail(s))
    ELSE IF s[Len(s)] \in WHITESPACE THEN strip(SubSeq(s, 1, Len(s) - 1))
    ELSE s

\* re.sub(r";.*\n", "\n", source): a ; with a newline somewhere after it is
\* cut up to that newline; a ; on a last line that has no newline stays.
RECURSIVE remove_comments(_)
remove_comments(s) ==
    IF Len(s) = 0 THEN s
    ELSE IF s[1] = ";" /\ \E i \in 2..Len(s) : s[i] = "\n"
    THEN LET nl == CHOOSE i \in 2..Len(s) :
                       s[i] = "\n" /\ \A j \in 2..(i - 1) : s[j] # "\n"
         IN <<"\n">> \o remove_comments(SubSeq(s, nl + 1, Len(s)))
    ELSE <<s[1]>> \o remove_comments(Tail(s))

\* The first index from start on whose character is not (skip_until) or is
\* (find_chars) in chars; len(source) when there is none.
skip_until(s, start, chars) ==
    IF \E i \in start..(Len(s) - 1) : At(s, i) \notin chars
    THEN CHOOSE i \in start..(Len(s) - 1) :
             At(s, i) \notin chars /\ \A j \in start..(i - 1) : At(s, j) \in chars
    ELSE Len(s)

find_chars(s, start, chars) ==
    IF \E i \in start..(Len(s) - 1) : At(s, i) \in chars
    THEN CHOOSE i \in start..(Len(s) - 1) :
             At(s, i) \in chars /\ \A j \in start..(i - 1) : At(s, j) \notin chars
    ELSE Len(s)

skip_whitespace(s, start) == skip_until(s, start, WHITESPACE)
skip_symbol(s, start) ==
    find_chars(s, start, WHITESPACE \cup {TOK_PAR_OPEN, TOK_PAR_CLOSE, TOK_QUOTE})

\* pend <= len(source) always holds, so the token is source[pos:pend].
next_token(s, pos) ==
    LET pend == skip_symbol(s, pos)
    IN [tok |-> Slice(s, pos, pend), pend |-> pend]

\* The index of the ) matching the ( at start; LispError when the source
\* ends first.  Returns [k, pos].
RECURSIVE scan_paren(_, _, _)
scan_paren(s, pos, open_brackets) ==
    IF open_brackets > 0
    THEN IF Len(s) = pos + 1 THEN [k |-> "LispError", pos |-> pos + 1]
         ELSE scan_paren(s, pos + 1,
                  IF At(s, pos + 1) = "(" THEN open_brackets + 1
                  ELSE IF At(s, pos + 1) = ")" THEN open_brackets - 1
                  ELSE open_brackets)
    ELSE [k |-> "ok", pos |-> pos]

find_matching_paren(s, start) == scan_paren(s, start, 1)

\* None (no token, or int() raised ValueError) is k = "none".
parse_int(s, pos) ==
    LET t == next_token(s, pos) IN
    IF Len(t.tok) = 0 THEN PRaise("none")
    ELSE IF IsIntTok(t.tok) THEN POk(Integer(IntVal(t.tok)), t.pend)
    ELSE PRaise("none")

parse_boolean(s, pos) ==
    LET t == next_token(s, pos) IN
    IF t.tok = <<"#", "t">> THEN POk(Boolean(TRUE), t.pend)
    ELSE IF t.tok = <<"#", "f">> THEN POk(Boolean(FALSE), t.pend)
    ELSE PRaise("LispError")

parse_symbol(s, pos) ==
    LET t == next_token(s, pos) IN POk(Symbol(Str(Slice(s, pos, t.pend))), t.pend)

RECURSIVE do_parse(_, _)
RECURSIVE parse_expr(_, _)
RECURSIVE parse_items(_, _, _, _)
RECURSIVE parse_quote(_, _)

\* The while loop of parse_expr: skip whitespace in the whole source, parse
\* one sub-expression of source[:pclose], step one character past its end.
parse_items(s, pclose, pos, expr) ==
    IF pos < pclose
    THEN LET sub == do_parse(Slice(s, 0, pclose), skip_whitespace(s, pos)) IN
         IF sub.k # "ok" THEN sub
         ELSE parse_items(s, pclose, sub.pend + 1, Append(expr, sub.expr))
    ELSE POk(List(expr), pclose + 1)

parse_expr(s, pos) ==
    LET m == find_matching_paren(s, pos) IN
    IF m.k # "ok" THEN PRaise(m.k)
    ELSE parse_items(s, m.pos, pos + 1, <<>>)

parse_quote(s, pos) ==
    LET sub == do_parse(s, pos + 1) IN
    IF sub.k # "ok" THEN sub
    ELSE POk(List(<<Symbol("quote"), sub.expr>>), sub.pend)

\* source[pos] past the end is an IndexError; the ) branch binds neither
\* expr nor pend, so the code after it raises UnboundLocalError.
do_parse(s, pos0) ==
    LET pos == skip_whitespace(s, pos0) IN
    IF pos >= Len(s) THEN PRaise("IndexError")
    ELSE LET c == At(s, pos) IN
         IF c = TOK_PAR_OPEN THEN parse_expr(s, pos)
         ELSE IF c = TOK_PAR_CLOSE THEN PRaise("UnboundLocalError")
         ELSE IF c = TOK_QUOTE THEN parse_quote(s, pos)
         ELSE IF c = "#" THEN parse_boolean(s, pos)
         ELSE IF parse_int(s, pos).k = "ok" THEN parse_int(s, pos)
         ELSE parse_symbol(s, pos)

parse(text) ==
    LET s == remove_comments(strip(text))
        r == do_parse(s, 0)
    IN IF r.k # "ok" THEN r
       ELSE IF r.pend # Len(s) THEN PRaise("LispError")
       ELSE r

(***************************************************************************)
(* The host program: it builds and extends environments, binds names, and  *)
(* evaluates expressions.  `exts` remembers every extend made (parent,     *)
(* child, bindings, the parent's variables at that moment); `last` is the  *)
(* most recent call with its outcome and the heap it started from; `built` *)
(* is the first (define f (lambda ...)) the host evaluated at the root,    *)
(* with the root's variables at that moment.                               *)
(***************************************************************************)
EmptyDict == [s \in {} |-> None]

Names == {Symbol("x"), Symbol("y")}
HostValues == {Integer(1), Integer(2)}
BindingSets ==
    {EmptyDict, [s \in {Symbol("x")} |-> Integer(2)], [s \in Names |-> Integer(1)]}

\* Expressions, written as the reader would return them.
Q(x) == List(<<Symbol("quote"), x>>)
If(p, a, b) == List(<<Symbol("if"), p, a, b>>)
Define(s, x) == List(<<Symbol("define"), Symbol(s), x>>)
Lambda(params, body) == List(<<Symbol("lambda"), List(params), body>>)
Call2(op, a, b) == List(<<Symbol(op), a, b>>)

Predicates ==
    {Integer(0), Integer(1), Boolean(TRUE), Boolean(FALSE), List(<<>>),
     Q(List(<<>>)), Q(List(<<Integer(1)>>)), Symbol("x"),
     Call2("eq", Integer(1), Integer(1)), Call2("<", Integer(1), Integer(0))}
Branches == {Integer(1), Integer(2), Symbol("y")}
IfPrograms ==
    {If(p, Integer(1), Integer(2)) : p \in Predicates} \cup
    {If(Integer(0), a, b) : a, b \in Branches} \cup
    {If(Boolean(FALSE), a, b) : a, b \in Branches}

AdderDef ==
    Define("f", Lambda(<<Symbol("x")>>,
                       Lambda(<<Symbol("y")>>,
                              Call2("+", Symbol("x"), Symbol("y")))))
AdderCall == List(<<List(<<Symbol("f"), Integer(3)>>), Integer(4)>>)
ReaderDef == Define("f", Lambda(<<>>, Symbol("y")))
ReaderCall == List(<<Symbol("f")>>)

LambdaPrograms ==
    {Lambda(<<>>, Integer(1)), Lambda(<<Symbol("x")>>, Symbol("x")),
     Lambda(<<Symbol("x"), Symbol("y")>>, Call2("+", Symbol("x"), Symbol("y")))}

DefinePrograms ==
    {Define("x", Integer(1)), Define("x", Integer(2)), Define("x", Integer(999)),
     Define("y", Integer(5)), Define("y", Symbol("x")),
     Define("x", Lambda(<<>>, Integer(1))),
     Define("y", Call2("/", Integer(1), Integer(0))),
     Define("x", Define("x", Integer(1))),
     AdderDef, ReaderDef}

OtherPrograms ==
    {Symbol("x"), Symbol("y"), Call2("+", Symbol("x"), Symbol("y")),
     Call2("+", Integer(2), Boolean(TRUE)), AdderCall, ReaderCall,
     List(<<Integer(1), Integer(2)>>), Q(Symbol("y"))}

Programs == IfPrograms \cup LambdaPrograms \cup DefinePrograms \cup OtherPrograms

NotParsed == [k |-> "unparsed", expr |-> None, pend |-> 0]

NoCall ==
    [op |-> "init", env |-> 0, sym |-> None, val |-> None, bind |-> EmptyDict,
     ast |-> None, k |-> "ok", v |-> None, child |-> 0, pre |-> <<>>]

Init ==
    /\ heap = <<EmptyDict>>
    /\ exts = {}
    /\ last = NoCall
    /\ built = [prog |-> None, pre |-> EmptyDict]
    /\ source = <<>>
    /\ orig = <<>>
    /\ result = NotParsed

\* C = P.extend(B)
HostExtend(p, B) ==
    /\ Len(heap) < MaxEnvs
    /\ LET x == extend(heap, p, B) IN
       /\ heap' = x.h
       /\ exts' = exts \cup {[p |-> p, c |-> x.env, b |-> B, snap |-> heap[p]]}
       /\ last' = [NoCall EXCEPT !.op = "extend", !.env = p, !.bind = B,
                                 !.child = x.env, !.pre = heap]
    /\ UNCHANGED <<built, source, orig, result>>

\* E.set(s, v)
HostSet(e, s, v) ==
    /\ LET r == set(heap, e, s, v) IN
       /\ heap' = r.h
       /\ last' = [NoCall EXCEPT !.op = "set", !.env = e, !.sym = s, !.val = v,
                                 !.k = r.k, !.v = r.v, !.pre = heap]
    /\ UNCHANGED <<exts, built, source, orig, result>>

\* evaluate(ast, E)
HostEvaluate(ast, e) ==
    /\ LET r == evaluate(ast, e, heap) IN
       /\ heap' = r.h
       /\ last' = [NoCall EXCEPT !.op = "eval", !.env = e, !.ast = ast,
                                 !.k = r.k, !.v = r.v, !.pre = heap]
    /\ built' = IF built.prog = None /\ e = 1 /\ ast \in {AdderDef, ReaderDef}
                THEN [prog |-> ast, pre |-> heap[1]]
                ELSE built
    /\ UNCHANGED <<exts, source, orig, result>>

\* Expressions evaluated against the root environment.
Next ==
    \/ \E s \in Names, v \in HostValues : HostSet(1, s, v)
    \/ \E ast \in Programs : HostEvaluate(ast, 1)

Spec == Init /\ [][Next]_vars

\* Environments extended and bound by the host, defines evaluated in them.
EnvPrograms ==
    {Define("x", Integer(1)), Define("y", Symbol("x")),
     Define("x", Lambda(<<>>, Integer(1)))}

NextEnv ==
    \/ \E p \in 1..Len(heap), B \in BindingSets : HostExtend(p, B)
    \/ \E e \in 1..Len(heap), s \in Names, v \in HostValues : HostSet(e, s, v)
    \/ \E e \in 1..Len(heap), ast \in EnvPrograms : HostEvaluate(ast, e)

SpecEnv == Init /\ [][NextEnv]_vars

(***************************************************************************)
(* The reader's caller: it takes a text, may put a ; comment at the end of *)
(* one of its lines (`orig` keeps the text as it was), and parses it.      *)
(***************************************************************************)
Alphabet == {"(", ")", " ", "\n", "'", "#", "t", "a", "1", ";"}

Examples ==
    {<<"(", "f", "o", "o", "(", "b", "a", "r", " ", "1", ")", "b", "a", "z", ")">>,
     <<"(", "f", "o", "o", " ", "(", "b", "a", "r", " ", "1", ")", " ", "b", "a", "z", " ", " ", ")">>,
     <<"(", "f", "o", "o", " ", "(", "b", "a", "r", " ", "1", ")", " ", "b", "a", "z", ")">>,
     <<"(", "f", "o", "o", " ", "(", "b", "a", "r", " ", "1", ")">>,
     <<"(", "q", "u", "o", "t", "e", " ", "f", "o", "o", ")">>,
     <<"'", "f", "o", "o">>,
     <<"(", "a", "\n", " ", "-", "4", "2", " ", "#", "f", ")">>,
     <<"(", "(", "a", ")", "(", "b", ")", ")">>,
     <<"(", "a", " ", "'", "(", "b", " ", "1", ")", ")">>}

Texts == (UNION {[1..n -> Alphabet] : n \in 1..MaxLen}) \cup Examples

Comments == {<<";">>, <<";", "a">>, <<";", " ", ")">>}

\* The ends of the lines of s: before each newline, and the end of s.
LineEnds(s) == {i \in 0..Len(s) : i = Len(s) \/ s[i + 1] = "\n"}

InitParse ==
    /\ heap = <<EmptyDict>>
    /\ exts = {}
    /\ last = NoCall
    /\ built = [prog |-> None, pre |-> EmptyDict]
    /\ source \in Texts
    /\ orig = source
    /\ result = NotParsed

AddComment(i, c) ==
    /\ result = NotParsed
    /\ source = orig
    /\ source' = SubSeq(source, 1, i) \o c \o SubSeq(source, i + 1, Len(source))
    /\ UNCHANGED <<heap, exts, last, built, orig, result>>

\* parse(source)
Parse ==
    /\ result = NotParsed
    /\ result' = parse(source)
    /\ UNCHANGED <<heap, exts, last, built, source, orig>>

NextParse ==
    \/ \E i \in LineEnds(source), c \in Comments : AddComment(i, c)
    \/ Parse

SpecParse == InitParse /\ [][NextParse]_vars

(***************************************************************************)
(* Properties of the environment model (checked under SpecEnv).            *)
(***************************************************************************)
\* The names a child inherits: those of its parent when it was made, and
\* those of the bindings it was made with.
Inherited(x) == (DOMAIN x.snap) \cup (DOMAIN x.b)

IsDefineForm(ast) ==
    /\ is_list(ast)
    /\ Len(ast.l) = 3
    /\ IsName(ast.l[1], "define")
    /\ is_symbol(ast.l[2])

\* C1: C = P.extend(B) is a new environment in which lookup gives B[s] for
\* every s of B and P's value for every other s bound in P; the extend
\* leaves every existing environment as it was; and afterwards no set (or
\* define) on C changes what P holds, and none on P changes what C holds.
ExtendIsolates ==
    /\ \A x \in exts : x.c # x.p /\ x.c \in 1..Len(heap) /\ x.p \in 1..Len(heap)
    /\ last.op = "extend" =>
         /\ last.child \notin DOMAIN last.pre
         /\ \A s \in DOMAIN last.bind :
                lookup(heap, last.child, s) = Ok(last.bind[s], heap)
         /\ \A s \in (DOMAIN last.pre[last.env]) \ (DOMAIN last.bind) :
                lookup(heap, last.child, s) = Ok(last.pre[last.env][s], heap)
         /\ \A e \in DOMAIN last.pre : heap[e] = last.pre[e]
    /\ last.op \in {"set", "eval"} =>
         \A x \in exts :
            /\ last.env = x.c => heap[x.p] = last.pre[x.p]
            /\ last.env = x.p => heap[x.c] = last.pre[x.c]

\* C1's case: after an extend, the parent has been given a binding of its
\* own and a set on the child has just added a name the parent cannot see.
ExtendIsolatesWitness ==
    \E x \in exts :
        /\ last.op = "set" /\ last.k = "ok" /\ last.env = x.c
        /\ last.sym \notin DOMAIN heap[x.p]
        /\ DOMAIN heap[x.p] # DOMAIN x.snap

\* C10: after C = P.extend(B), C.set(s, v) raises LispError for every s
\* bound in P or in B and changes nothing; on a child nothing has been set
\* on yet it succeeds for every other s; and a define of an inherited name
\* evaluated against C (as a closure body is) fails and leaves the binding.
InheritedCountAsBound ==
    \A x \in exts :
        /\ (last.op = "set" /\ last.env = x.c /\ last.sym \in Inherited(x)) =>
               last.k = "LispError" /\ heap = last.pre
        /\ (last.op = "set" /\ last.env = x.c
              /\ DOMAIN last.pre[x.c] = Inherited(x)
              /\ last.sym \notin Inherited(x)) =>
               /\ last.k = "ok"
               /\ lookup(heap, x.c, last.sym) = Ok(last.val, heap)
        /\ (last.op = "eval" /\ last.env = x.c /\ IsDefineForm(last.ast)
              /\ last.ast.l[2] \in Inherited(x)) =>
               /\ last.k # "ok"
               /\ heap[x.c][last.ast.l[2]] = last.pre[x.c][last.ast.l[2]]

\* C10's case: a set on the child of a name it has only from its parent
\* has just been refused.
InheritedCountAsBoundWitness ==
    \E x \in exts :
        /\ last.op = "set" /\ last.env = x.c /\ last.k = "LispError"
        /\ last.sym \in (DOMAIN x.snap) \ (DOMAIN x.b)

(***************************************************************************)
(* Properties of the evaluator (checked under Spec).                       *)
(***************************************************************************)
\* C2: bindings are write-once: a bound symbol keeps its value; a set, or a
\* define, of an already-bound symbol fails with LispError and leaves the
\* binding as it was; a set of an unbound symbol adds exactly that binding.
WriteOnce ==
    /\ \A e \in DOMAIN last.pre : \A s \in DOMAIN last.pre[e] :
           s \in DOMAIN heap[e] /\ heap[e][s] = last.pre[e][s]
    /\ (last.op = "set" /\ last.sym \in DOMAIN last.pre[last.env]) =>
           last.k = "LispError" /\ heap = last.pre
    /\ (last.op = "set" /\ last.sym \notin DOMAIN last.pre[last.env]) =>
           /\ last.k = "ok"
           /\ DOMAIN heap[last.env] = (DOMAIN last.pre[last.env]) \cup {last.sym}
           /\ heap[last.env][last.sym] = last.val
    /\ (last.op = "eval" /\ IsDefineForm(last.ast)
          /\ last.ast.l[2] \in DOMAIN last.pre[last.env]) =>
           last.k = "LispError"

\* C3: once (define f (lambda (x) (lambda (y) (+ x y)))) has been evaluated
\* at the root, ((f 3) 4) evaluates to 7, whatever was defined since.
LexicalScope ==
    (built.prog = AdderDef /\ last.op = "eval" /\ last.ast = AdderCall) =>
        last.k = "ok" /\ last.v = Integer(7)

\* C4: (if p a b) gives the value of a when p evaluates to anything but #f,
\* and the value of b when p evaluates to #f.
IfTruthiness ==
    (last.op = "eval" /\ is_list(last.ast) /\ Len(last.ast.l) = 4
       /\ IsName(last.ast.l[1], "if")) =>
        LET p == evaluate(last.ast.l[2], last.env, last.pre)
            chosen == IF p.v = Boolean(FALSE) THEN last.ast.l[4] ELSE last.ast.l[3]
            r == evaluate(chosen, last.env, p.h)
        IN p.k = "ok" => (last.k = r.k /\ last.v = r.v /\ heap = r.h)

\* C5: (lambda params body) with params a list evaluates, without error, to
\* a closure of the current environment, the parameter list and the body.
LambdaBuildsClosure ==
    (last.op = "eval" /\ is_list(last.ast) /\ Len(last.ast.l) = 3
       /\ IsName(last.ast.l[1], "lambda") /\ is_list(last.ast.l[2])) =>
        /\ last.k = "ok"
        /\ last.v = ClosureVal(last.env, last.ast.l[2].l, last.ast.l[3])
        /\ heap = last.pre

\* C9: once (define f (lambda () y)) has been evaluated at the root, a y
\* bound at the root afterwards is what (f) returns.
ClosureSeesLaterDefine ==
    (built.prog = ReaderDef /\ Symbol("y") \notin DOMAIN built.pre
       /\ last.op = "eval" /\ last.ast = ReaderCall
       /\ Symbol("y") \in DOMAIN last.pre[1]) =>
        last.k = "ok" /\ last.v = last.pre[1][Symbol("y")]

(***************************************************************************)
(* Properties of the reader (checked under SpecParse).  Their yardstick is *)
(* the grammar of the language: a text is cut into tokens ( ( and ) and '  *)
(* each on its own, any other maximal run of characters that are neither   *)
(* whitespace nor one of these three), and an expression is an atom, a     *)
(* parenthesised sequence of expressions, or a ' before an expression.     *)
(***************************************************************************)
Delimiters == WHITESPACE \cup {"(", ")", "'"}

RECURSIVE Tokens(_)
Tokens(s) ==
    IF Len(s) = 0 THEN <<>>
    ELSE IF s[1] \in WHITESPACE THEN Tokens(Tail(s))
    ELSE IF s[1] \in {"(", ")", "'"} THEN <<(<<s[1]>>)>> \o Tokens(Tail(s))
    ELSE LET n == CHOOSE i \in 1..Len(s) :
                      /\ \A j \in 1..i : s[j] \notin Delimiters
                      /\ (i = Len(s) \/ s[i + 1] \in Delimiters)
         IN <<SubSeq(s, 1, n)>> \o Tokens(SubSeq(s, n + 1, Len(s)))

ReadFail == [ok |-> FALSE, expr |-> None, rest |-> <<>>]

ReadAtom(tok) ==
    IF tok[1] = "#"
    THEN IF tok = <<"#", "t">> THEN [ok |-> TRUE, expr |-> Boolean(TRUE)]
         ELSE IF tok = <<"#", "f">> THEN [ok |-> TRUE, expr |-> Boolean(FALSE)]
         ELSE [ok |-> FALSE, expr |-> None]
    ELSE IF IsIntTok(tok) THEN [ok |-> TRUE, expr |-> Integer(IntVal(tok))]
    ELSE [ok |-> TRUE, expr |-> Symbol(Str(tok))]

RECURSIVE Read(_)
RECURSIVE ReadList(_, _)
Read(toks) ==
    IF Len(toks) = 0 THEN ReadFail
    ELSE IF toks[1] = <<"(">> THEN ReadList(Tail(toks), <<>>)
    ELSE IF toks[1] = <<")">> THEN ReadFail
    ELSE IF toks[1] = <<"'">> THEN
        LET r == Read(Tail(toks)) IN
        IF r.ok THEN [ok |-> TRUE, expr |-> Q(r.expr), rest |-> r.rest]
        ELSE ReadFail
    ELSE LET a == ReadAtom(toks[1]) IN
         IF a.ok THEN [ok |-> TRUE, expr |-> a.expr, rest |-> Tail(toks)]
         ELSE ReadFail

ReadList(toks, acc) ==
    IF Len(toks) = 0 THEN ReadFail
    ELSE IF toks[1] = <<")">>
    THEN [ok |-> TRUE, expr |-> List(acc), rest |-> Tail(toks)]
    ELSE LET r == Read(toks) IN
         IF r.ok THEN ReadList(r.rest, Append(acc, r.expr)) ELSE ReadFail

\* The text is exactly one well-formed expression, and the tree it denotes.
WellFormed(s) == Read(Tokens(s)).ok /\ Len(Read(Tokens(s)).rest) = 0
Expected(s) == Read(Tokens(s)).expr

NoComment(s) == \A i \in 1..Len(s) : s[i] # ";"

\* C6: a non-empty text (here one without comments) that is not exactly one
\* well-formed expression makes parse fail, and with a LispError.
ParseFailsWithLispError ==
    (result # NotParsed /\ source = orig /\ Len(source) > 0
       /\ NoComment(source) /\ ~WellFormed(source)) =>
        result.k = "LispError"

\* C7: a well-formed text (here one without comments) parses to the tree of
\* its sub-expressions, wherever whitespace stands or is left out.
WhitespaceOnlySeparates ==
    (result # NotParsed /\ source = orig /\ NoComment(source)
       /\ WellFormed(source)) =>
        result.k = "ok" /\ result.expr = Expected(source)

\* C8: when a text (here one without comments) parses to a tree, the text
\* with a ; comment put at the end of one of its lines parses to that tree.
CommentsPreserveParse ==
    (result # NotParsed /\ source # orig /\ NoComment(orig)
       /\ parse(orig).k = "ok") =>
        result.k = "ok" /\ result.expr = parse(orig).expr

====
